---- MODULE Spec2Model ----
(***************************************************************************)
(* Terraform HTTP state backend stub (src/main.py): one state document and *)
(* one lock record, each held in a module global and mirrored in a file.   *)
(* Request handlers are coroutines on one event loop: a handler runs       *)
(* atomically between two awaits, and the only awaits are the reads of the *)
(* request body in update_state, lock_state and unlock_state.              *)
(***************************************************************************)
EXTENDS Naturals, FiniteSets, TLC

VARIABLES
    state_store,   \* main.py:15  in-memory state document, None when absent
    lock_info,     \* main.py:16  in-memory lock record, None when absent
    STATE_FILE,    \* main.py:11  terraform_state.json on disk
    LOCK_FILE,     \* main.py:12  terraform_lock.json on disk
    handlers,      \* the request coroutines: where each one is suspended, and its locals
    response       \* the request served by the latest step and the response it got

vars == <<state_store, lock_info, STATE_FILE, LOCK_FILE, handlers, response>>

(***************************************************************************)
(* Bounds.                                                                 *)
(***************************************************************************)
\* Number of request coroutines that can be in flight at once.
MaxInFlight == 2

(***************************************************************************)
(* Python / JSON values.                                                   *)
(***************************************************************************)
None == [type |-> "NoneType"]
Str(s) == [type |-> "str", val |-> s]
Int(s) == [type |-> "int", val |-> s]
Dict(items) == [type |-> "dict", items |-> items]
EmptyItems == [k \in {} |-> None]

IsDict(v) == v.type = "dict"

\* dict.get(key): the value under key, None when the key is missing.
\* Only a dict has the method: on any other value Python raises AttributeError,
\* which the callers below test for with IsDict before they call Get.
Get(d, key) == IF key \in DOMAIN d.items THEN d.items[key] ELSE None

(***************************************************************************)
(* Texts: what travels in a request body and what is stored in a file.     *)
(* json.dumps turns a value into its text, json.loads turns the text back  *)
(* or raises JSONDecodeError on a text that is no JSON document.           *)
(***************************************************************************)
Garbage == [garbage |-> TRUE]
\* Bytes that are no text in the encoding open(..., 'r') decodes with: reading
\* them raises UnicodeDecodeError (a ValueError, but no JSONDecodeError).
Undecodable == [undecodable |-> TRUE]
json_dumps(v) == [json |-> v]
IsJson(text) == "json" \in DOMAIN text
json_loads(text) == text.json

NoFile == [exists |-> FALSE]
FileOf(text) == [exists |-> TRUE, content |-> text]

(***************************************************************************)
(* Inputs the requests are drawn from.                                     *)
(***************************************************************************)
LockRec(id, operation) == Dict([ID |-> Str(id), Operation |-> Str(operation)])

D1 == Dict([version |-> Int("4"), resources |-> Str("[]")])
D2 == Dict([version |-> Int("5"), resources |-> Str("[r]")])

\* Values a POST /tfstate body can parse to.
StateValues == {None, D1, D2}
\* Values a LOCK / UNLOCK body can parse to: null, a number, a mapping without
\* ID, and lock records of two holders (one of them with two different metadata).
LockValues == {None, Int("5"), Dict(EmptyItems),
               LockRec("a", "plan"), LockRec("a", "apply"), LockRec("b", "plan")}
\* The Lock-ID header: absent, or a string.
LockIds == {None, Str("a"), Str("b")}

StateBodies == {json_dumps(v) : v \in StateValues} \cup {Garbage}
LockBodies == {json_dumps(v) : v \in LockValues} \cup {Garbage}

(***************************************************************************)
(* Persistence: load_state / save_state / load_lock / save_lock.           *)
(***************************************************************************)
\* A load raises when the exception of the read is none of those its except
\* clause names (json.JSONDecodeError, IOError).
load_raises(file) == file.exists /\ file.content = Undecodable

\* load_state: the new value of state_store given its old value and the file.
\* A missing file leaves the global as it is; an unparsable file sets it to None.
load_state(store, file) ==
    IF file.exists
    THEN IF IsJson(file.content) THEN json_loads(file.content) ELSE None
    ELSE store

\* Faulty save_state: never removes the file.
save_state_no_unlink(store, file) ==
    IF store = None
    THEN file
    ELSE FileOf(json_dumps(store))

\* save_state: the file after a save of `store` that does not fail.
save_state(store, file) ==
    IF store = None
    THEN NoFile
    ELSE FileOf(json_dumps(store))

\* Faulty load_lock: the lock file is never read back.
load_lock_forget(lock, file) == lock

load_lock(lock, file) ==
    IF file.exists
    THEN IF IsJson(file.content) THEN json_loads(file.content) ELSE None
    ELSE lock

\* Faulty save_lock: never removes the file.
save_lock_no_unlink(lock, file) ==
    IF lock = None
    THEN file
    ELSE FileOf(json_dumps(lock))

save_lock(lock, file) ==
    IF lock = None
    THEN NoFile
    ELSE FileOf(json_dumps(lock))

\* A save that raises IOError / OSError: unlink or open failed and the file is
\* as it was, or open(..., 'w') truncated the file and the write did not finish.
FailedSave(value, file) ==
    IF value = None
    THEN {file}
    ELSE {file, FileOf(Garbage)}

\* The outcomes of one save: `saved` is the file a save that succeeds leaves.
\* With io = "ok" the file system does as asked. With io = "error" the system
\* call of the save raises (a save of None with no file makes no system call
\* that changes anything, and cannot fail).
SaveResults(saved, value, file, io) ==
    IF io = "ok" \/ (value = None /\ ~file.exists)
    THEN {[file |-> saved, raised |-> FALSE]}
    ELSE {[file |-> f, raised |-> TRUE] : f \in FailedSave(value, file)}

(***************************************************************************)
(* Responses.                                                              *)
(***************************************************************************)
NoContent == [type |-> "empty"]
NoResponse == [op |-> "none"]
\* What the globals and the files hold when a step starts.
Snapshot ==
    [state_store |-> state_store, lock_info |-> lock_info,
     STATE_FILE |-> STATE_FILE, LOCK_FILE |-> LOCK_FILE]
\* A served request (method, Lock-ID header, body), its response (status,
\* content), and what the step that answered it found when it started.
Resp(op, lock_id, body, status, content) ==
    [op |-> op, lock_id |-> lock_id, body |-> body,
     status |-> status, content |-> content, before |-> Snapshot]

\* HTTPException(status_code=409, detail=f"State is locked: {json.dumps(lock_info)}")
LockedDetail(lock) == [detail |-> "State is locked: ", lock |-> json_dumps(lock)]
NotFoundDetail == [detail |-> "State not found"]
InvalidJsonDetail == [detail |-> "Invalid JSON"]
\* Faulty content of the 409 of unlock_state: the held record, as lock_state gives.
MismatchContent_discloses == lock_info

MismatchContent == Dict([error |-> Str("Lock ID mismatch")])
\* An exception no handler catches (AttributeError from .get, OSError from a
\* save): the framework answers 500.
ServerError(exception) == [detail |-> "Internal Server Error", exception |-> exception]

(***************************************************************************)
(* Handlers.                                                               *)
(***************************************************************************)
Slots == 1..MaxInFlight
Idle == [pc |-> "idle"]
InFlight == {h \in Slots : handlers[h] # Idle}
\* A new request is taken up while fewer than `cap` are in flight.
CanAccept(cap) == Cardinality(InFlight) < cap

Init ==
    /\ state_store = None
    /\ lock_info = None
    /\ STATE_FILE = NoFile
    /\ LOCK_FILE = NoFile
    /\ handlers = [h \in Slots |-> Idle]
    /\ response = NoResponse

\* Faulty get_state: a held lock refuses the read.
get_state_locked(cap) ==
    /\ CanAccept(cap)
    /\ response' = IF lock_info # None
                   THEN Resp("GET", None, None, 409, LockedDetail(lock_info))
                   ELSE IF state_store = None
                   THEN Resp("GET", None, None, 404, NotFoundDetail)
                   ELSE Resp("GET", None, None, 200, state_store)
    /\ UNCHANGED <<state_store, lock_info, STATE_FILE, LOCK_FILE, handlers>>

\* Faulty get_state: no test for None, the global is returned as it is.
get_state_no_404(cap) ==
    /\ CanAccept(cap)
    /\ response' = Resp("GET", None, None, 200, state_store)
    /\ UNCHANGED <<state_store, lock_info, STATE_FILE, LOCK_FILE, handlers>>

\* GET /tfstate (no await: one step).
get_state(cap) ==
    /\ CanAccept(cap)
    /\ response' = IF state_store = None
                   THEN Resp("GET", None, None, 404, NotFoundDetail)
                   ELSE Resp("GET", None, None, 200, state_store)
    /\ UNCHANGED <<state_store, lock_info, STATE_FILE, LOCK_FILE, handlers>>

\* Faulty check for lock: any Lock-ID header at all lets the mutation through.
check_for_lock_any_header(lock, lock_id) ==
    IF lock = None THEN "pass"
    ELSE IF ~IsDict(lock) THEN "error"
    ELSE IF lock_id = None THEN "locked"
    ELSE "pass"

\* "Check for lock" of update_state and of delete_state (the same lines in
\* both): "pass" when the mutation may go on, "locked" for the 409, "error"
\* when lock_info has no method get (AttributeError).
check_for_lock(lock, lock_id) ==
    IF lock = None THEN "pass"
    ELSE IF ~IsDict(lock) THEN "error"
    ELSE IF lock_id # Get(lock, "ID") THEN "locked"
    ELSE "pass"

\* POST /tfstate up to `await request.body()`. The body of a request is drawn
\* when the handler reads it, or when the request ends without reading it.
update_state_begin(h, cap, lock_id, body) ==
    /\ CanAccept(cap)
    /\ handlers[h] = Idle
    /\ LET c == check_for_lock(lock_info, lock_id) IN
       IF c = "pass"
       THEN /\ handlers' = [handlers EXCEPT
                                ![h] = [pc |-> "update_state_body", lock_id |-> lock_id]]
            /\ response' = NoResponse
       ELSE /\ response' = IF c = "locked"
                           THEN Resp("POST", lock_id, body, 409, LockedDetail(lock_info))
                           ELSE Resp("POST", lock_id, body, 500, ServerError("AttributeError"))
            /\ UNCHANGED handlers
    /\ UNCHANGED <<state_store, lock_info, STATE_FILE, LOCK_FILE>>

\* Faulty update_state: a body that does not parse resets the document, as
\* the except clause of load_state does.
update_state_resume_reset(h, body, io) ==
    /\ handlers[h].pc = "update_state_body"
    /\ handlers' = [handlers EXCEPT ![h] = Idle]
    /\ IF ~IsJson(body)
       THEN /\ response' = Resp("POST", handlers[h].lock_id, body, 400, InvalidJsonDetail)
            /\ state_store' = None
            /\ UNCHANGED STATE_FILE
       ELSE LET new == json_loads(body) IN
            /\ state_store' = new
            /\ STATE_FILE' = save_state(new, STATE_FILE)
            /\ response' = Resp("POST", handlers[h].lock_id, body, 200, NoContent)
    /\ UNCHANGED <<lock_info, LOCK_FILE>>

\* Faulty update_state: a document already stored is kept, not replaced.
update_state_resume_keep(h, body, io) ==
    /\ handlers[h].pc = "update_state_body"
    /\ handlers' = [handlers EXCEPT ![h] = Idle]
    /\ IF ~IsJson(body)
       THEN /\ response' = Resp("POST", handlers[h].lock_id, body, 400, InvalidJsonDetail)
            /\ UNCHANGED <<state_store, STATE_FILE>>
       ELSE LET new == IF state_store = None THEN json_loads(body) ELSE state_store IN
            /\ state_store' = new
            /\ STATE_FILE' = save_state(new, STATE_FILE)
            /\ response' = Resp("POST", handlers[h].lock_id, body, 200, NoContent)
    /\ UNCHANGED <<lock_info, LOCK_FILE>>

\* POST /tfstate from the arrival of the body to the response.
update_state_resume(h, body, io) ==
    /\ handlers[h].pc = "update_state_body"
    /\ handlers' = [handlers EXCEPT ![h] = Idle]
    /\ IF ~IsJson(body)
       THEN /\ response' = Resp("POST", handlers[h].lock_id, body, 400, InvalidJsonDetail)
            /\ UNCHANGED <<state_store, STATE_FILE>>
       ELSE LET new == json_loads(body) IN
            /\ state_store' = new
            /\ \E r \in SaveResults(save_state(new, STATE_FILE), new, STATE_FILE, io) :
                 /\ STATE_FILE' = r.file
                 /\ response' = IF r.raised
                                THEN Resp("POST", handlers[h].lock_id, body, 500, ServerError("OSError"))
                                ELSE Resp("POST", handlers[h].lock_id, body, 200, NoContent)
    /\ UNCHANGED <<lock_info, LOCK_FILE>>

\* Faulty delete_state: deleting the state releases the lock with it.
delete_state_unlocks(cap, lock_id, io) ==
    /\ CanAccept(cap)
    /\ LET c == check_for_lock(lock_info, lock_id) IN
       IF c = "pass"
       THEN /\ state_store' = None
            /\ STATE_FILE' = save_state(None, STATE_FILE)
            /\ lock_info' = None
            /\ LOCK_FILE' = save_lock(None, LOCK_FILE)
            /\ response' = Resp("DELETE", lock_id, None, 200, NoContent)
       ELSE /\ response' = IF c = "locked"
                           THEN Resp("DELETE", lock_id, None, 409, LockedDetail(lock_info))
                           ELSE Resp("DELETE", lock_id, None, 500, ServerError("AttributeError"))
            /\ UNCHANGED <<state_store, STATE_FILE, lock_info, LOCK_FILE>>
    /\ UNCHANGED handlers

\* DELETE /tfstate (no await: one step).
delete_state(cap, lock_id, io) ==
    /\ CanAccept(cap)
    /\ LET c == check_for_lock(lock_info, lock_id) IN
       IF c = "pass"
       THEN /\ state_store' = None
            /\ \E r \in SaveResults(save_state(None, STATE_FILE), None, STATE_FILE, io) :
                 /\ STATE_FILE' = r.file
                 /\ response' = IF r.raised
                                THEN Resp("DELETE", lock_id, None, 500, ServerError("OSError"))
                                ELSE Resp("DELETE", lock_id, None, 200, NoContent)
       ELSE /\ response' = IF c = "locked"
                           THEN Resp("DELETE", lock_id, None, 409, LockedDetail(lock_info))
                           ELSE Resp("DELETE", lock_id, None, 500, ServerError("AttributeError"))
            /\ UNCHANGED <<state_store, STATE_FILE>>
    /\ UNCHANGED <<lock_info, LOCK_FILE, handlers>>

\* LOCK /lock up to `await request.body()`.
lock_state_begin(h, cap) ==
    /\ CanAccept(cap)
    /\ handlers[h] = Idle
    /\ handlers' = [handlers EXCEPT ![h] = [pc |-> "lock_state_body"]]
    /\ response' = NoResponse
    /\ UNCHANGED <<state_store, lock_info, STATE_FILE, LOCK_FILE>>

\* Faulty check of lock_state: a held lock is taken over by any caller.
check_already_locked_takeover(lock, new_lock_info) ==
    IF lock = None THEN "pass"
    ELSE IF ~IsDict(lock) \/ ~IsDict(new_lock_info) THEN "error"
    ELSE "pass"

\* Faulty check of lock_state: a held lock refuses its own holder too.
check_already_locked_exclusive(lock, new_lock_info) ==
    IF lock = None THEN "pass"
    ELSE IF ~IsDict(lock) \/ ~IsDict(new_lock_info) THEN "error"
    ELSE "conflict"

\* "Check if already locked" of lock_state: "pass", "conflict" for the 423,
\* "error" when either value has no method get (AttributeError).
check_already_locked(lock, new_lock_info) ==
    IF lock = None THEN "pass"
    ELSE IF ~IsDict(lock) \/ ~IsDict(new_lock_info) THEN "error"
    ELSE IF Get(lock, "ID") # Get(new_lock_info, "ID") THEN "conflict"
    ELSE "pass"

\* LOCK /lock from the arrival of the body to the response.
lock_state_resume(h, body, io) ==
    /\ handlers[h].pc = "lock_state_body"
    /\ handlers' = [handlers EXCEPT ![h] = Idle]
    /\ IF ~IsJson(body)
       THEN /\ response' = Resp("LOCK", None, body, 400, InvalidJsonDetail)
            /\ UNCHANGED <<lock_info, LOCK_FILE>>
       ELSE LET new_lock_info == json_loads(body)
                c == check_already_locked(lock_info, new_lock_info) IN
            IF c = "pass"
            THEN /\ lock_info' = new_lock_info
                 /\ \E r \in SaveResults(save_lock(new_lock_info, LOCK_FILE),
                                          new_lock_info, LOCK_FILE, io) :
                      /\ LOCK_FILE' = r.file
                      /\ response' = IF r.raised
                                     THEN Resp("LOCK", None, body, 500, ServerError("OSError"))
                                     ELSE Resp("LOCK", None, body, 200, NoContent)
            ELSE /\ response' = IF c = "conflict"
                                THEN Resp("LOCK", None, body, 423, lock_info)
                                ELSE Resp("LOCK", None, body, 500, ServerError("AttributeError"))
                 /\ UNCHANGED <<lock_info, LOCK_FILE>>
    /\ UNCHANGED <<state_store, STATE_FILE>>

\* UNLOCK /lock up to `await request.body()`.
unlock_state_begin(h, cap) ==
    /\ CanAccept(cap)
    /\ handlers[h] = Idle
    /\ handlers' = [handlers EXCEPT ![h] = [pc |-> "unlock_state_body"]]
    /\ response' = NoResponse
    /\ UNCHANGED <<state_store, lock_info, STATE_FILE, LOCK_FILE>>

\* Faulty check of unlock_state: any caller releases a held lock.
verify_lock_id_ignored(lock, unlock_info) ==
    IF lock = None THEN "pass"
    ELSE IF ~IsDict(lock) \/ ~IsDict(unlock_info) THEN "error"
    ELSE "pass"

\* "Verify the lock ID matches" of unlock_state: "pass", "mismatch" for the
\* 409, "error" when either value has no method get (AttributeError).
verify_lock_id(lock, unlock_info) ==
    IF lock = None THEN "pass"
    ELSE IF ~IsDict(lock) \/ ~IsDict(unlock_info) THEN "error"
    ELSE IF Get(lock, "ID") # Get(unlock_info, "ID") THEN "mismatch"
    ELSE "pass"

\* UNLOCK /lock from the arrival of the body to the response.
unlock_state_resume(h, body, io) ==
    /\ handlers[h].pc = "unlock_state_body"
    /\ handlers' = [handlers EXCEPT ![h] = Idle]
    /\ IF ~IsJson(body)
       THEN /\ response' = Resp("UNLOCK", None, body, 400, InvalidJsonDetail)
            /\ UNCHANGED <<lock_info, LOCK_FILE>>
       ELSE LET unlock_info == json_loads(body)
                c == verify_lock_id(lock_info, unlock_info) IN
            IF c = "pass"
            THEN /\ lock_info' = None
                 /\ \E r \in SaveResults(save_lock(None, LOCK_FILE), None, LOCK_FILE, io) :
                      /\ LOCK_FILE' = r.file
                      /\ response' = IF r.raised
                                     THEN Resp("UNLOCK", None, body, 500, ServerError("OSError"))
                                     ELSE Resp("UNLOCK", None, body, 200, NoContent)
            ELSE /\ response' = IF c = "mismatch"
                                THEN Resp("UNLOCK", None, body, 409, MismatchContent)
                                ELSE Resp("UNLOCK", None, body, 500, ServerError("AttributeError"))
                 /\ UNCHANGED <<lock_info, LOCK_FILE>>
    /\ UNCHANGED <<state_store, STATE_FILE>>

\* The process stops and starts again: the coroutines in flight are gone, the
\* globals are None (main.py:15-16) and then loaded from the files (main.py:62-63).
Restart ==
    /\ ~load_raises(STATE_FILE)
    /\ ~load_raises(LOCK_FILE)
    /\ state_store' = load_state(None, STATE_FILE)
    /\ lock_info' = load_lock(None, LOCK_FILE)
    /\ handlers' = [h \in Slots |-> Idle]
    /\ response' = NoResponse
    /\ UNCHANGED <<STATE_FILE, LOCK_FILE>>

\* The requests, with at most `cap` of them in flight and every save's outcome
\* drawn from `ios`.
Serve(cap, ios) ==
    \/ get_state(cap)
    \/ \E h \in Slots, lock_id \in LockIds, body \in StateBodies :
         update_state_begin(h, cap, lock_id, body)
    \/ \E h \in Slots, body \in StateBodies, io \in ios : update_state_resume(h, body, io)
    \/ \E lock_id \in LockIds, io \in ios : delete_state(cap, lock_id, io)
    \/ \E h \in Slots : lock_state_begin(h, cap)
    \/ \E h \in Slots, body \in LockBodies, io \in ios : lock_state_resume(h, body, io)
    \/ \E h \in Slots : unlock_state_begin(h, cap)
    \/ \E h \in Slots, body \in LockBodies, io \in ios : unlock_state_resume(h, body, io)
    \/ Restart

\* Requests interleave at their awaits; no save fails.
Next == Serve(MaxInFlight, {"ok"})
Spec == Init /\ [][Next]_vars

\* Every request runs to its response before the next one starts; no save fails.
NextSerial == Serve(1, {"ok"})
SpecSerial == Init /\ [][NextSerial]_vars

\* Every request runs to its response before the next one starts; a save may raise.
NextIO == Serve(1, {"ok", "error"})
SpecIO == Init /\ [][NextIO]_vars

\* The process is killed inside save_state of a POST: open(STATE_FILE, 'w') has
\* truncated the file and json.dump has not written all of the text. The
\* process then starts again (as in Restart).
crash_in_save_state(h, body) ==
    /\ handlers[h].pc = "update_state_body"
    /\ IsJson(body)
    /\ json_loads(body) # None
    /\ STATE_FILE' = FileOf(Garbage)
    /\ state_store' = load_state(None, STATE_FILE')
    /\ lock_info' = load_lock(None, LOCK_FILE)
    /\ handlers' = [k \in Slots |-> Idle]
    /\ response' = NoResponse
    /\ UNCHANGED LOCK_FILE

\* The same inside save_lock of a LOCK whose check passed.
crash_in_save_lock(h, body) ==
    /\ handlers[h].pc = "lock_state_body"
    /\ IsJson(body)
    /\ json_loads(body) # None
    /\ check_already_locked(lock_info, json_loads(body)) = "pass"
    /\ LOCK_FILE' = FileOf(Garbage)
    /\ state_store' = load_state(None, STATE_FILE)
    /\ lock_info' = load_lock(None, LOCK_FILE')
    /\ handlers' = [k \in Slots |-> Idle]
    /\ response' = NoResponse
    /\ UNCHANGED STATE_FILE

\* One request at a time, no save raises, the process may be killed in a save.
NextCrash ==
    \/ Serve(1, {"ok"})
    \/ \E h \in Slots, body \in StateBodies : crash_in_save_state(h, body)
    \/ \E h \in Slots, body \in LockBodies : crash_in_save_lock(h, body)
SpecCrash == Init /\ [][NextCrash]_vars

\* load_state and load_lock as functions of what they find: any value in the
\* global, and no file, a file of JSON text, of other text, or of bytes that
\* are no text.
FilesOf(values) ==
    {NoFile, FileOf(Garbage), FileOf(Undecodable)}
        \cup {FileOf(json_dumps(v)) : v \in values \ {None}}

InitLoad ==
    /\ state_store \in StateValues
    /\ lock_info \in LockValues
    /\ STATE_FILE \in FilesOf(StateValues)
    /\ LOCK_FILE \in FilesOf(LockValues)
    /\ handlers = [h \in Slots |-> Idle]
    /\ response = NoResponse

\* A call of a load: the function called, whether it raised, what it found.
Loaded(op, raised) == [op |-> op, raised |-> raised, before |-> Snapshot]

call_load_state ==
    /\ response' = Loaded("load_state", load_raises(STATE_FILE))
    /\ state_store' = IF load_raises(STATE_FILE)
                      THEN state_store
                      ELSE load_state(state_store, STATE_FILE)
    /\ UNCHANGED <<lock_info, STATE_FILE, LOCK_FILE, handlers>>

call_load_lock ==
    /\ response' = Loaded("load_lock", load_raises(LOCK_FILE))
    /\ lock_info' = IF load_raises(LOCK_FILE)
                    THEN lock_info
                    ELSE load_lock(lock_info, LOCK_FILE)
    /\ UNCHANGED <<state_store, STATE_FILE, LOCK_FILE, handlers>>

NextLoad == call_load_state \/ call_load_lock
SpecLoad == InitLoad /\ [][NextLoad]_vars

(***************************************************************************)
(* Vocabulary of the properties.                                           *)
(***************************************************************************)
Mutations == {"POST", "DELETE"}
\* v is a mapping with a field ID.
HasID(v) == IsDict(v) /\ "ID" \in DOMAIN v.items
\* The two values are mappings with the same ID (as dict.get reads it).
SameID(u, v) == IsDict(u) /\ IsDict(v) /\ Get(u, "ID") = Get(v, "ID")
\* No lock record is held, or the presented Lock-ID is the ID of the held record.
Authorized(lock, lock_id) == lock = None \/ (IsDict(lock) /\ lock_id = Get(lock, "ID"))
\* The file that holds exactly `v`: no file for None, else the text of v.
Durable(v) == IF v = None THEN NoFile ELSE FileOf(json_dumps(v))
\* The latest step answered a request whose body parsed.
Parsed == IsJson(response.body)

\* C1: a POST /tfstate with a well-formed body, or a DELETE /tfstate, handled
\* without interleaving, is answered 200 iff no lock record is held or the
\* Lock-ID header equals the ID of the held record; otherwise it is answered 409
\* and the state document and its file are as they were.
C1_MutationIffAuthorized ==
    (response.op \in Mutations /\ (response.op = "POST" => Parsed)) =>
        /\ (response.status = 200) <=>
               Authorized(response.before.lock_info, response.lock_id)
        /\ response.status # 200 =>
               /\ response.status = 409
               /\ state_store = response.before.state_store
               /\ STATE_FILE = response.before.STATE_FILE

\* C2: a POST /tfstate never replaces the state document at a moment when a
\* lock is held whose ID differs from the Lock-ID the POST presented, whatever
\* the interleaving of the handlers at their awaits.
C2_NoWriteUnderForeignLock ==
    ~ /\ response.op = "POST"
      /\ response.status = 200
      /\ state_store # response.before.state_store
      /\ HasID(response.before.lock_info)
      /\ Get(response.before.lock_info, "ID") # response.lock_id

\* C3: with a lock record with ID a held, a LOCK whose body has another ID is
\* answered 423 with the held record as content, and the held record and its
\* file are as they were.
C3_ConflictDisclosesHolder ==
    (/\ response.op = "LOCK"
     /\ Parsed
     /\ HasID(response.before.lock_info)
     /\ HasID(json_loads(response.body))
     /\ ~SameID(response.before.lock_info, json_loads(response.body))) =>
        /\ response.status = 423
        /\ response.content = response.before.lock_info
        /\ lock_info = response.before.lock_info
        /\ LOCK_FILE = response.before.LOCK_FILE

C3_Witness ==
    /\ response.op = "LOCK"
    /\ response.status = 423
    /\ response.body = json_dumps(LockRec("b", "plan"))
    /\ response.before.lock_info = LockRec("a", "plan")
    /\ response.content = LockRec("a", "plan")
    /\ lock_info = LockRec("a", "plan")

\* C4: with a lock record with ID x held, a LOCK whose body has ID x is answered
\* 200, the lock stays held with ID x, and the record in memory and in the file
\* is the one just presented: the state after the LOCK depends on its body
\* alone, so repeating it changes nothing.
C4_RelockIdempotent ==
    (/\ response.op = "LOCK"
     /\ Parsed
     /\ HasID(response.before.lock_info)
     /\ HasID(json_loads(response.body))
     /\ SameID(response.before.lock_info, json_loads(response.body))) =>
        /\ response.status = 200
        /\ lock_info = json_loads(response.body)
        /\ LOCK_FILE = FileOf(response.body)
        /\ SameID(lock_info, response.before.lock_info)

C4_Witness ==
    /\ response.op = "LOCK"
    /\ response.status = 200
    /\ response.before.lock_info = LockRec("a", "plan")
    /\ lock_info = LockRec("a", "apply")
    /\ LOCK_FILE = FileOf(json_dumps(LockRec("a", "apply")))

\* C5: an UNLOCK with a well-formed body is answered 200 iff no lock is held or
\* the body's ID equals the ID of the held record; after every UNLOCK answered
\* 200 the lock record is None and the lock file does not exist.
C5_UnlockIffHolder ==
    (response.op = "UNLOCK" /\ Parsed) =>
        /\ (response.status = 200) <=>
               \/ response.before.lock_info = None
               \/ SameID(response.before.lock_info, json_loads(response.body))
        /\ response.status = 200 => (lock_info = None /\ LOCK_FILE = NoFile)

C5_Witness ==
    /\ response.op = "UNLOCK"
    /\ response.status = 200
    /\ response.before.lock_info = LockRec("a", "plan")
    /\ response.before.LOCK_FILE.exists
    /\ lock_info = None
    /\ LOCK_FILE = NoFile

\* C6: with a lock with ID a held, an UNLOCK whose body has another ID is
\* answered 409 and the lock record and its file are as they were; an UNLOCK
\* whose body has ID a, met with that lock, is answered 200 and releases it.
C6_WrongIdLeavesLock ==
    (/\ response.op = "UNLOCK"
     /\ Parsed
     /\ HasID(response.before.lock_info)
     /\ HasID(json_loads(response.body))) =>
        IF SameID(response.before.lock_info, json_loads(response.body))
        THEN /\ response.status = 200
             /\ lock_info = None
             /\ LOCK_FILE = NoFile
        ELSE /\ response.status = 409
             /\ lock_info = response.before.lock_info
             /\ LOCK_FILE = response.before.LOCK_FILE

C6_Witness ==
    /\ response.op = "UNLOCK"
    /\ response.status = 409
    /\ response.body = json_dumps(LockRec("b", "plan"))
    /\ response.before.lock_info = LockRec("a", "plan")
    /\ lock_info = LockRec("a", "plan")
    /\ LOCK_FILE = FileOf(json_dumps(LockRec("a", "plan")))

\* C7: a POST /tfstate of D with no Lock-ID, met with no lock, is answered 200;
\* every POST answered 200 leaves exactly its document D as the state document
\* (whatever the document before: no merge); and a GET /tfstate that finds a
\* state document is answered 200 with exactly that document.
C7_PutThenGet ==
    /\ (/\ response.op = "POST"
        /\ Parsed
        /\ response.lock_id = None
        /\ response.before.lock_info = None) => response.status = 200
    /\ (response.op = "POST" /\ response.status = 200) =>
           state_store = json_loads(response.body)
    /\ (response.op = "GET" /\ response.before.state_store # None) =>
           /\ response.status = 200
           /\ response.content = response.before.state_store
           /\ state_store = response.before.state_store

C7_Witness ==
    /\ response.op = "POST"
    /\ response.status = 200
    /\ response.lock_id = None
    /\ response.before.lock_info = None
    /\ response.before.state_store = D1
    /\ response.body = json_dumps(D2)
    /\ state_store = D2

\* C8: GET /tfstate is answered 404 exactly when there is no state document:
\* there is none at the start, a DELETE answered 200 leaves none, and once
\* there is none only a POST answered 200 brings one.
C8_NotFoundIffNoState ==
    /\ state_store = None
    /\ [][/\ response'.op = "GET" =>
                 ((response'.status = 404) <=> (state_store = None))
          /\ (response'.op = "DELETE" /\ response'.status = 200) =>
                 state_store' = None
          /\ (state_store = None /\ state_store' # None) =>
                 (response'.op = "POST" /\ response'.status = 200)]_vars

\* A DELETE answered 200 has removed the document a POST had stored: there is
\* no state document, and a GET from here is answered 404.
C8_Witness ==
    /\ response.op = "DELETE"
    /\ response.status = 200
    /\ response.before.state_store = D1
    /\ state_store = None
    /\ ~STATE_FILE.exists

\* C9: while no save fails, each file exists iff the value in memory is present
\* and holds exactly that value, so that a restart (None, then load) gives back
\* the state document and the lock record of before; after a DELETE answered
\* 200 there is no state file, after an UNLOCK answered 200 no lock file.
C9_DurableMirrorsMemory ==
    /\ STATE_FILE.exists <=> state_store # None
    /\ LOCK_FILE.exists <=> lock_info # None
    /\ STATE_FILE = Durable(state_store)
    /\ LOCK_FILE = Durable(lock_info)
    /\ load_state(None, STATE_FILE) = state_store
    /\ load_lock(None, LOCK_FILE) = lock_info
    /\ (response.op = "DELETE" /\ response.status = 200) => ~STATE_FILE.exists
    /\ (response.op = "UNLOCK" /\ response.status = 200) => ~LOCK_FILE.exists

\* The state right after a restart that found both files.
C9_Witness ==
    /\ response = NoResponse
    /\ InFlight = {}
    /\ state_store = D1
    /\ lock_info = LockRec("a", "plan")
    /\ STATE_FILE.exists
    /\ LOCK_FILE.exists

\* C10: when the save of a mutation (POST, DELETE, LOCK or UNLOCK) fails, the
\* request is not answered 200 and the values in memory are as they were.
C10_FailedSaveAborts ==
    (response.op \in {"POST", "DELETE", "LOCK", "UNLOCK"}
        /\ response.status = 500
        /\ response.content = ServerError("OSError")) =>
        /\ state_store = response.before.state_store
        /\ lock_info = response.before.lock_info

\* C11: a POST or DELETE /tfstate that presents no Lock-ID header is answered
\* 409 whenever a lock record is held, whatever the record holds (a mapping
\* with or without the field ID).
C11_NoHeaderNeverAuthorizes ==
    (/\ response.op \in Mutations
     /\ response.lock_id = None
     /\ response.before.lock_info # None
     /\ IsDict(response.before.lock_info)) => response.status = 409

C13_NoImplicitRelease ==
    [][HasID(lock_info) =>
          /\ ~SameID(lock_info', lock_info) =>
                 /\ response'.op = "UNLOCK"
                 /\ response'.status = 200
                 /\ SameID(json_loads(response'.body), lock_info)
                 /\ lock_info' = None
          /\ (response'.op = "LOCK" /\ response'.status = 200) =>
                 SameID(json_loads(response'.body), lock_info)]_vars

\* The state right after a restart that found the lock file and no state file.
C13_Witness ==
    /\ response = NoResponse
    /\ InFlight = {}
    /\ lock_info = LockRec("b", "plan")
    /\ state_store = None

\* C14: with a lock with ID a held, a POST /tfstate presenting another Lock-ID
\* is answered 409 whether its body parses or not (never 400) and changes
\* nothing; a POST with a well-formed body or a DELETE presenting ID a is
\* answered 200.
C14_LockCheckBeforeParse ==
    (response.op \in Mutations /\ HasID(response.before.lock_info)
        /\ response.lock_id # None) =>
        IF response.lock_id = Get(response.before.lock_info, "ID")
        THEN (response.op = "POST" => Parsed) => response.status = 200
        ELSE /\ response.status = 409
             /\ Snapshot = response.before

C14_Witness ==
    /\ response.op = "POST"
    /\ response.body = Garbage
    /\ response.lock_id = Str("b")
    /\ response.before.lock_info = LockRec("a", "plan")
    /\ response.status = 409

\* C15: a save overwrites its file atomically: whatever the moment the process
\* is killed, a file that exists holds a whole JSON text (the value of before
\* the save or the new one), never part of one.
C15_SaveIsAtomic ==
    /\ STATE_FILE.exists => IsJson(STATE_FILE.content)
    /\ LOCK_FILE.exists => IsJson(LOCK_FILE.content)

\* C16: load_state (load_lock) never raises, and after it the global is None
\* whenever the file does not exist or holds no JSON text, whatever the global
\* held before the call.
C16_LoadYieldsAbsence ==
    /\ response.op = "load_state" =>
           /\ ~response.raised
           /\ (~response.before.STATE_FILE.exists
                  \/ ~IsJson(response.before.STATE_FILE.content)) =>
                  state_store = None
    /\ response.op = "load_lock" =>
           /\ ~response.raised
           /\ (~response.before.LOCK_FILE.exists
                  \/ ~IsJson(response.before.LOCK_FILE.content)) =>
                  lock_info = None

\* C17: GET /tfstate is answered from the state document alone (200 with the
\* document, 404 with none) whatever lock is held, and leaves the globals and
\* the files as they were.
C17_ReadNeedsNoLock ==
    response.op = "GET" =>
        /\ response.status = (IF response.before.state_store = None THEN 404 ELSE 200)
        /\ response.content = (IF response.before.state_store = None
                               THEN NotFoundDetail
                               ELSE response.before.state_store)
        /\ Snapshot = response.before

C17_Witness ==
    /\ response.op = "GET"
    /\ response.status = 200
    /\ response.content = D2
    /\ lock_info = LockRec("b", "plan")

\* C18: the 409 to an UNLOCK with a mismatched ID is one fixed content, the
\* same whatever record is held, while the 423 to a conflicting LOCK is the
\* held record.
C18_AsymmetricDisclosure ==
    /\ (response.op = "UNLOCK" /\ response.status = 409) =>
           response.content = Dict([error |-> Str("Lock ID mismatch")])
    /\ (response.op = "LOCK" /\ response.status = 423) =>
           response.content = response.before.lock_info

C18_Witness ==
    /\ response.op = "UNLOCK"
    /\ response.status = 409
    /\ response.before.lock_info = LockRec("b", "plan")
    /\ response.body = json_dumps(LockRec("a", "apply"))
    /\ response.content = Dict([error |-> Str("Lock ID mismatch")])

\* C19: every LOCK answered 200, for any body that parses, leaves a lock held:
\* the record in memory is present and is the body, the lock file exists; and
\* a LOCK that meets a held lock and brings another value is answered 423.
C19_LockAlwaysHolds ==
    /\ (response.op = "LOCK" /\ response.status = 200) =>
           /\ lock_info # None
           /\ lock_info = json_loads(response.body)
           /\ LOCK_FILE.exists
    /\ (/\ response.op = "LOCK"
        /\ Parsed
        /\ response.before.lock_info # None
        /\ ~SameID(response.before.lock_info, json_loads(response.body))) =>
           response.status = 423

\* C20: LOCK and UNLOCK, whatever their outcome, leave the state document and
\* its file as they were; GET, POST and DELETE /tfstate, whatever their
\* outcome, leave the lock record and its file as they were.
C20_SlotsAreSeparate ==
    /\ response.op \in {"LOCK", "UNLOCK"} =>
           /\ state_store = response.before.state_store
           /\ STATE_FILE = response.before.STATE_FILE
    /\ response.op \in {"GET", "POST", "DELETE"} =>
           /\ lock_info = response.before.lock_info
           /\ LOCK_FILE = response.before.LOCK_FILE

C20_Witness ==
    /\ response.op = "DELETE"
    /\ response.status = 200
    /\ response.lock_id = Str("a")
    /\ response.before.state_store = D1
    /\ state_store = None
    /\ lock_info = LockRec("a", "plan")
    /\ LOCK_FILE = FileOf(json_dumps(LockRec("a", "plan")))

====
